---- MODULE Spec2Model ----
(***************************************************************************)
(* Model of rust/src/fvm/machine.rs: the process-wide registry FVM_MAP of  *)
(* FVM machines behind a Mutex, the handle source NEXT_ID, and the four    *)
(* extern "C" entry points create / drop / execute / finish, called by     *)
(* several host threads.                                                   *)
(***************************************************************************)
EXTENDS Integers, Sequences, FiniteSets, TLC

(***************************************************************************)
(* Bounds of the model.                                                    *)
(***************************************************************************)
NumThreads == 2   \* host threads calling into the library
MaxCalls == 4     \* entry-point calls made in one behaviour
MaxId == 1        \* machine ids the host passes are 0..MaxId

Threads == 1..NumThreads
MachineIds == 0..MaxId

VARIABLES
    machines,     \* FVM_MAP: the HashMap<u64, CgoMachine> inside the Mutex
    poisoned,     \* FVM_MAP: the Mutex's poison flag
    lockHolder,   \* FVM_MAP: the thread holding the MutexGuard, 0 when free
    pc,           \* per thread: position inside an entry point, "idle" outside
    machine_id,   \* per thread: machine_id argument, or next_id in add_fvm_machine
    machine,      \* per thread: the CgoMachine held (created or looked up), by serial
    apply_kind,   \* per thread: decoded ApplyKind of the execute in progress
    returned,     \* history: what the entry point that ended last handed to the host
    alive,        \* FALSE once the process has aborted
    issued,       \* history: [serial, handle] of every create that inserted
    drops,        \* history: per machine id, number of drops that returned NoError
    calls,        \* history: number of entry-point calls made so far
    serials,      \* history: number of machines Machine::new has constructed
    scenario      \* history: how far the calls so far follow the reference scenario

vars == <<machines, poisoned, lockHolder, pc, machine_id, machine, apply_kind,
          returned, alive, issued, drops, calls, serials, scenario>>

(***************************************************************************)
(* Values.                                                                 *)
(***************************************************************************)
FCPNoError == "FCPNoError"
FCPUnclassifiedError == "FCPUnclassifiedError"
NoMsg == "null"                \* error_msg: a null pointer
NoResponse == [kind |-> "none"]       \* no entry point has ended yet
PanicEscaped == [kind |-> "panic"]    \* a panic left the entry point: no response
NoMachine == 0                 \* serials start at 1
NoKind == "none"

\* The result payload of a response whose payload fields were never written.
NoPayload == [gas_used |-> 0, exit_code |-> 0, return_data |-> << >>]

\* <response>::default() of super::types: success status, no message, id 0,
\* empty payload.
DefaultResponse(kind) ==
    [kind |-> kind, status_code |-> FCPNoError, error_msg |-> NoMsg, machine_id |-> 0,
     payload |-> NoPayload]

\* response.status_code = FCPUnclassifiedError; response.error_msg = rust_str_to_c_str(msg)
ErrorResponse(kind, msg) ==
    [DefaultResponse(kind) EXCEPT !.status_code = FCPUnclassifiedError, !.error_msg = msg]

\* catch_panic_response: Ok(v) => v; Err(panic) => default response with
\* set_error((FCPUnclassifiedError, "Rust panic: ...")).
catch_panic_response(kind, panicked, value) ==
    IF panicked
      THEN [DefaultResponse(kind) EXCEPT !.status_code = FCPUnclassifiedError,
                                         !.error_msg = "Rust panic"]
      ELSE value

(***************************************************************************)
(* Type marshaling of the create arguments.                                *)
(***************************************************************************)
\* A u64 is kept as its two 32-bit halves: value = hi * 2^32 + lo.
NetworkVersionArgs == [hi : {0, 1}, lo : {18, 99}]
ValidNetworkVersions == 0..18

\* Variant: a value that does not fit in 32 bits becomes the largest i32
\* instead of being truncated.
AsU32Saturating(v) == IF v.hi = 0 THEN v.lo ELSE 2147483647

\* `network_version as u32`: the low 32 bits.
AsU32(v) == v.lo

\* NetworkVersion::try_from(network_version as u32)
NetworkVersionTryFrom(v) ==
    IF AsU32(v) \in ValidNetworkVersions
      THEN [ok |-> TRUE, val |-> AsU32(v)]
      ELSE [ok |-> FALSE, val |-> 0]

\* TokenAmount::from_u64: BigInt::from_u64 is Some for every u64.
TokenAmounts == {0}
TokenAmountFromU64(a) == [some |-> TRUE, val |-> a]

\* State-root bytes: <<version, codec, hash code, digest length>> \o digest.
StateRoots == { <<1, 113, 18, 2, 7, 7>>,    \* a CIDv1
                <<1, 113, 18, 2, 7>>,       \* digest shorter than its length
                << >> }                     \* empty input

\* Cid::try_from(state_root_bytes)
CidTryFrom(bytes) ==
    IF /\ Len(bytes) >= 4
       /\ bytes[1] = 1
       /\ Len(bytes) = 4 + bytes[4]
      THEN [ok |-> TRUE, val |-> bytes]
      ELSE [ok |-> FALSE, val |-> << >>]

EngineOutcomes == {"Ok", "Err", "Panic"}

\* The create arguments tried: the well-formed call, and calls with one
\* argument changed.
CreateArgs ==
    {a \in [token_amount : TokenAmounts,
            network_version : NetworkVersionArgs,
            state_root : StateRoots] :
        \/ a.network_version = [hi |-> 0, lo |-> 18]
        \/ a.state_root = <<1, 113, 18, 2, 7, 7>>}

(***************************************************************************)
(* Type marshaling of the execute arguments.                               *)
(***************************************************************************)
\* fil_Message: only the address fields can fail to convert.
Addresses == {"f01", "malformed"}
FilMessages == {m \in [from : Addresses, to : Addresses] : m.from = "f01" \/ m.to = "f01"}

\* convert_fil_message_to_message of super::types
convert_fil_message_to_message(m) ==
    IF m.from # "malformed" /\ m.to # "malformed"
      THEN [ok |-> TRUE, val |-> m]
      ELSE [ok |-> FALSE, val |-> m]

ApplyKindArgs == {0, 1, 2}

\* Variant: only 1 is decoded as Implicit.
DecodeApplyKindOnlyOne(k) == IF k = 1 THEN "Implicit" ELSE "Explicit"

\* if apply_kind == 0 { Explicit } else { Implicit }
DecodeApplyKind(k) == IF k = 0 THEN "Explicit" ELSE "Implicit"

(***************************************************************************)
(* NEXT_ID is a `const` item: every mention of it is a fresh                *)
(* AtomicU64::new(0), so fetch_add acts on a temporary.                    *)
(***************************************************************************)
NEXT_ID == 0

\* AtomicU64::fetch_add(cell, n): the previous value, and the cell's new value.
fetch_add(cell, n) == [old |-> cell, new |-> cell + n]

\* let next_id = NEXT_ID.fetch_add(1, SeqCst): the new value stays in the temporary.
AllocateId == fetch_add(NEXT_ID, 1).old

(***************************************************************************)
(* The registry.                                                           *)
(***************************************************************************)
\* HashMap::insert: a present key has its value replaced.
MapInsert(m, k, v) == [x \in DOMAIN m \cup {k} |-> IF x = k THEN v ELSE m[x]]

\* Variant: a remove that leaves the entry in the map.
MapRemoveNothing(m, k) == m

\* HashMap::remove
MapRemove(m, k) == [x \in DOMAIN m \ {k} |-> m[x]]

\* A registered machine: its identity and the number of messages applied to it.
Instance(serial) == [serial |-> serial, applied |-> 0]

Init ==
    /\ machines = << >>
    /\ poisoned = FALSE
    /\ lockHolder = 0
    /\ pc = [t \in Threads |-> "idle"]
    /\ machine_id = [t \in Threads |-> 0]
    /\ machine = [t \in Threads |-> NoMachine]
    /\ apply_kind = [t \in Threads |-> NoKind]
    /\ returned = NoResponse
    /\ alive = TRUE
    /\ issued = {}
    /\ drops = [h \in MachineIds |-> 0]
    /\ calls = 0
    /\ serials = 0
    /\ scenario = "fresh"

\* A thread leaves an entry point, handing r to the host.
Return(t, r) ==
    /\ pc' = [pc EXCEPT ![t] = "idle"]
    /\ machine_id' = [machine_id EXCEPT ![t] = 0]
    /\ machine' = [machine EXCEPT ![t] = NoMachine]
    /\ apply_kind' = [apply_kind EXCEPT ![t] = NoKind]
    /\ returned' = r

CanCall(t) == alive /\ pc[t] = "idle" /\ calls < MaxCalls

AllIdle == \A u \in Threads : pc[u] = "idle"

\* The reference scenario in a fresh process, one call after the other returned:
\* create with valid inputs, execute (Explicit, well-formed message) on the
\* handle, drop of the handle, execute on the handle again, every engine call
\* succeeding.  scenario names the last of these calls made, "off" once the
\* calls made differ from it.
ScenarioCall(from, to, fits) ==
    IF scenario = from /\ AllIdle /\ fits THEN to ELSE "off"

\* Variant: a lock that excludes nobody.
LockNeverBlocks == TRUE

\* Mutex::lock returns only while no other thread holds the guard.
LockAvailable == lockHolder = 0

(***************************************************************************)
(* fil_create_fvm_machine                                                  *)
(***************************************************************************)
\* The conversions of lines 80-105 all succeed, so that Machine::new is called.
ConversionsOk(args) ==
    /\ TokenAmountFromU64(args.token_amount).some
    /\ NetworkVersionTryFrom(args.network_version).ok
    /\ CidTryFrom(args.state_root).ok

\* The create calls tried: the arguments and the outcome of Machine::new,
\* which has an outcome only when the conversions let it be called.
CreateCalls ==
    {c \in [args : CreateArgs, eng : EngineOutcomes] :
        ConversionsOk(c.args) \/ c.eng = "Ok"}

\* Variant: the state-root error arm does not return, and the machine is
\* constructed and added all the same.
CreateBodyKeepsGoing(args, eng) ==
    LET token == TokenAmountFromU64(args.token_amount)
        nv == NetworkVersionTryFrom(args.network_version)
    IN  IF ~token.some
          THEN [step |-> "return",
                response |-> ErrorResponse("create", "token amount conversion failure")]
        ELSE IF ~nv.ok
          THEN [step |-> "return",
                response |-> ErrorResponse("create", "network version error")]
        ELSE IF eng = "Panic"
          THEN [step |-> "panic", response |-> DefaultResponse("create")]
        ELSE IF eng = "Err"
          THEN [step |-> "return",
                response |-> ErrorResponse("create", "machine error")]
        ELSE [step |-> "add", response |-> DefaultResponse("create")]

\* The body up to the call of add_fvm_machine: what it does next ("return",
\* "panic" or "add") and the response it has built.  eng is the outcome of
\* fvm::machine::Machine::new.
CreateBody(args, eng) ==
    LET token == TokenAmountFromU64(args.token_amount)
        nv == NetworkVersionTryFrom(args.network_version)
        root == CidTryFrom(args.state_root)
    IN  IF ~token.some
          THEN [step |-> "return",
                response |-> ErrorResponse("create", "token amount conversion failure")]
        ELSE IF ~nv.ok
          THEN [step |-> "return",
                response |-> ErrorResponse("create", "network version error")]
        ELSE IF ~root.ok
          THEN [step |-> "return",
                response |-> ErrorResponse("create", "cid error")]
        ELSE IF eng = "Panic"
          THEN [step |-> "panic", response |-> DefaultResponse("create")]
        ELSE IF eng = "Err"
          THEN [step |-> "return",
                response |-> ErrorResponse("create", "machine error")]
        ELSE [step |-> "add", response |-> DefaultResponse("create")]

\* The call, the conversions and Machine::new; on success the thread enters
\* add_fvm_machine and takes its next_id.
fil_create_fvm_machine(t, args, eng) ==
    /\ CanCall(t)
    /\ calls' = calls + 1
    /\ LET b == CreateBody(args, eng)
       IN  IF b.step = "add"
             THEN /\ serials' = serials + 1
                  /\ machine' = [machine EXCEPT ![t] = serials + 1]
                  /\ machine_id' = [machine_id EXCEPT ![t] = AllocateId]
                  /\ pc' = [pc EXCEPT ![t] = "add_lock"]
                  /\ UNCHANGED <<apply_kind, returned>>
             ELSE /\ Return(t, catch_panic_response("create", b.step = "panic", b.response))
                  /\ UNCHANGED serials
    /\ scenario' = ScenarioCall("fresh", "created", ConversionsOk(args) /\ eng = "Ok")
    /\ UNCHANGED <<machines, poisoned, lockHolder, alive, issued, drops>>

\* Variant: next_id is returned without the insert having been made.
AddReturnsWithoutInsert(t) ==
    /\ alive
    /\ pc[t] = "add_lock"
    /\ LockAvailable
    /\ IF poisoned
         THEN /\ Return(t, catch_panic_response("create", TRUE, DefaultResponse("create")))
              /\ UNCHANGED <<machines, issued, lockHolder>>
         ELSE /\ pc' = [pc EXCEPT ![t] = "create_ret"]
              /\ machine' = [machine EXCEPT ![t] = NoMachine]
              /\ UNCHANGED <<machines, issued, lockHolder, machine_id, apply_kind,
                             returned>>
    /\ UNCHANGED <<poisoned, alive, drops, calls, serials, scenario>>

\* add_fvm_machine from FVM_MAP.lock().unwrap() on: on a poisoned Mutex the
\* unwrap panics; otherwise machines.insert(next_id, machine), and the guard
\* is dropped when the function returns next_id.
add_fvm_machine(t) ==
    /\ alive
    /\ pc[t] = "add_lock"
    /\ LockAvailable
    /\ IF poisoned
         THEN /\ Return(t, catch_panic_response("create", TRUE, DefaultResponse("create")))
              /\ UNCHANGED <<machines, issued, lockHolder>>
         ELSE /\ machines' = MapInsert(machines, machine_id[t], Instance(machine[t]))
              /\ issued' = issued \cup {[serial |-> machine[t], handle |-> machine_id[t]]}
              /\ lockHolder' = 0
              /\ machine' = [machine EXCEPT ![t] = NoMachine]
              /\ pc' = [pc EXCEPT ![t] = "create_ret"]
              /\ UNCHANGED <<machine_id, apply_kind, returned>>
    /\ UNCHANGED <<poisoned, alive, drops, calls, serials, scenario>>

\* response.status_code = FCPNoError; response.machine_id = add_fvm_machine(machine)
CreateOkResponse(id) ==
    [DefaultResponse("create") EXCEPT !.status_code = FCPNoError, !.machine_id = id]

\* raw_ptr(response): the handle reaches the host.
fil_create_fvm_machine_return(t) ==
    /\ alive
    /\ pc[t] = "create_ret"
    /\ Return(t, CreateOkResponse(machine_id[t]))
    /\ UNCHANGED <<machines, poisoned, lockHolder, alive, issued, drops, calls, serials,
                   scenario>>

(***************************************************************************)
(* fil_drop_fvm_machine                                                    *)
(***************************************************************************)
fil_drop_fvm_machine(t, id) ==
    /\ CanCall(t)
    /\ calls' = calls + 1
    /\ pc' = [pc EXCEPT ![t] = "drop_lock"]
    /\ machine_id' = [machine_id EXCEPT ![t] = id]
    /\ scenario' = ScenarioCall("executed", "dropped", id \in {r.handle : r \in issued})
    /\ UNCHANGED <<machines, poisoned, lockHolder, machine, apply_kind, returned,
                   alive, issued, drops, serials>>

\* Variant: the None arm sets the status and forgets the message.
DropResponseNoMsg(found) ==
    IF found
      THEN [DefaultResponse("drop") EXCEPT !.status_code = FCPNoError]
      ELSE [DefaultResponse("drop") EXCEPT !.status_code = FCPUnclassifiedError]

\* Variant: the None arm reports success like the Some arm.
DropResponseAlwaysFound(found) ==
    [DefaultResponse("drop") EXCEPT !.status_code = FCPNoError]

\* match machines.remove(&machine_id) { Some(_) => ..., None => ... }
DropResponse(found) ==
    IF found
      THEN [DefaultResponse("drop") EXCEPT !.status_code = FCPNoError]
      ELSE ErrorResponse("drop", "invalid machine id")

\* The body from FVM_MAP.lock().unwrap() on: on a poisoned Mutex the unwrap
\* panics; otherwise machines.remove(&machine_id), the response, and the
\* guard dropped on return.
fil_drop_fvm_machine_remove(t) ==
    /\ alive
    /\ pc[t] = "drop_lock"
    /\ LockAvailable
    /\ IF poisoned
         THEN /\ Return(t, catch_panic_response("drop", TRUE, DefaultResponse("drop")))
              /\ UNCHANGED <<machines, drops, lockHolder>>
         ELSE LET id == machine_id[t]
                  found == id \in DOMAIN machines
              IN  /\ machines' = MapRemove(machines, id)
                  /\ drops' = IF found THEN [drops EXCEPT ![id] = @ + 1] ELSE drops
                  /\ lockHolder' = 0
                  /\ Return(t, DropResponse(found))
    /\ UNCHANGED <<poisoned, alive, issued, calls, serials, scenario>>

(***************************************************************************)
(* fil_fvm_machine_execute_message                                         *)
(***************************************************************************)
\* Variant: the result of the message conversion is not looked at before the
\* lock is taken.
ExecuteLocksUnconverted(t, id, message, kind) ==
    /\ CanCall(t)
    /\ calls' = calls + 1
    /\ pc' = [pc EXCEPT ![t] = "exec_lock"]
    /\ machine_id' = [machine_id EXCEPT ![t] = id]
    /\ apply_kind' = [apply_kind EXCEPT ![t] = DecodeApplyKind(kind)]
    /\ scenario' = "off"
    /\ UNCHANGED <<machine, returned, machines, poisoned, lockHolder, alive, issued,
                   drops, serials>>

\* The call, the decoding of apply_kind and the conversion of the message.
fil_fvm_machine_execute_message(t, id, message, kind) ==
    /\ CanCall(t)
    /\ calls' = calls + 1
    /\ IF convert_fil_message_to_message(message).ok
         THEN /\ pc' = [pc EXCEPT ![t] = "exec_lock"]
              /\ machine_id' = [machine_id EXCEPT ![t] = id]
              /\ apply_kind' = [apply_kind EXCEPT ![t] = DecodeApplyKind(kind)]
              /\ UNCHANGED <<machine, returned>>
         ELSE Return(t, ErrorResponse("execute", "message conversion error"))
    /\ LET fits == /\ id \in {r.handle : r \in issued}
                   /\ convert_fil_message_to_message(message).ok
                   /\ kind = 0
       IN  scenario' = IF scenario = "created"
                         THEN ScenarioCall("created", "executed", fits)
                         ELSE ScenarioCall("dropped", "executed_again", fits)
    /\ UNCHANGED <<machines, poisoned, lockHolder, alive, issued, drops, serials>>

\* Variant: the guard covers the lookup only and is dropped before the
\* engine call.
ExecuteGetThenUnlock(t) ==
    /\ alive
    /\ pc[t] = "exec_lock"
    /\ LockAvailable
    /\ IF poisoned
         THEN Return(t, catch_panic_response("execute", TRUE, DefaultResponse("execute")))
         ELSE IF machine_id[t] \in DOMAIN machines
           THEN /\ pc' = [pc EXCEPT ![t] = "exec_engine"]
                /\ machine' = [machine EXCEPT ![t] = machines[machine_id[t]].serial]
                /\ UNCHANGED <<machine_id, apply_kind, returned>>
           ELSE Return(t, ErrorResponse("execute", "invalid machine id"))
    /\ lockHolder' = 0
    /\ UNCHANGED <<machines, poisoned, alive, issued, drops, calls, serials, scenario>>

\* FVM_MAP.lock().unwrap() and machines.get_mut(&machine_id): on a poisoned
\* Mutex the unwrap panics; Some => machine.execute_message(..) begins under
\* the guard; None => the error response, and the guard is dropped.
fil_fvm_machine_execute_message_get(t) ==
    /\ alive
    /\ pc[t] = "exec_lock"
    /\ LockAvailable
    /\ IF poisoned
         THEN /\ Return(t, catch_panic_response("execute", TRUE, DefaultResponse("execute")))
              /\ UNCHANGED lockHolder
         ELSE IF machine_id[t] \in DOMAIN machines
           THEN /\ lockHolder' = t
                /\ pc' = [pc EXCEPT ![t] = "exec_engine"]
                /\ machine' = [machine EXCEPT ![t] = machines[machine_id[t]].serial]
                /\ UNCHANGED <<machine_id, apply_kind, returned>>
           ELSE /\ lockHolder' = 0
                /\ Return(t, ErrorResponse("execute", "invalid machine id"))
    /\ UNCHANGED <<machines, poisoned, alive, issued, drops, calls, serials, scenario>>

\* The ApplyRet values machine.execute_message returns in Ok(..): a message
\* always uses gas.
ApplyRets ==
    { [gas_used |-> 1, exit_code |-> 0, return_data |-> << >>],
      [gas_used |-> 2, exit_code |-> 1, return_data |-> <<7>>] }

\* match machine.execute_message(message, apply_kind) { Ok(x) => .., Err(err) => .. }
\* The Ok arm binds apply_ret and sets the status only: "FIXME: Return relevant
\* fields of ApplyRet".
ExecuteResponse(eng, apply_ret) ==
    IF eng = "Ok"
      THEN [DefaultResponse("execute") EXCEPT !.status_code = FCPNoError]
      ELSE ErrorResponse("execute", "execute error")

\* Variant: the Err arm returns without the guard being dropped.
ExecuteEngineKeepsLockOnErr(t, eng, applied, apply_ret) ==
    /\ alive
    /\ pc[t] = "exec_engine"
    /\ eng = "Ok" => applied
    /\ machines' = IF applied
                     THEN [machines EXCEPT ![machine_id[t]].applied = @ + 1]
                     ELSE machines
    /\ poisoned' = (poisoned \/ eng = "Panic")
    /\ lockHolder' = IF eng = "Err" THEN lockHolder ELSE 0
    /\ Return(t, catch_panic_response("execute", eng = "Panic",
                                      ExecuteResponse(eng, apply_ret)))
    /\ scenario' = IF eng = "Ok" THEN scenario ELSE "off"
    /\ UNCHANGED <<alive, issued, drops, calls, serials>>

\* machine.execute_message returns: Ok applies the message to the instance, Err
\* and a panic leave it as the engine left it (applied or not).  A panic
\* unwinds through the guard, which poisons the Mutex.
fil_fvm_machine_execute_message_engine(t, eng, applied, apply_ret) ==
    /\ alive
    /\ pc[t] = "exec_engine"
    /\ eng = "Ok" => applied
    /\ machines' = IF applied
                     THEN [machines EXCEPT ![machine_id[t]].applied = @ + 1]
                     ELSE machines
    /\ poisoned' = (poisoned \/ eng = "Panic")
    /\ lockHolder' = 0
    /\ Return(t, catch_panic_response("execute", eng = "Panic",
                                      ExecuteResponse(eng, apply_ret)))
    /\ scenario' = IF eng = "Ok" THEN scenario ELSE "off"
    /\ UNCHANGED <<alive, issued, drops, calls, serials>>

(***************************************************************************)
(* fil_fvm_machine_finish_message: no catch_panic_response around the body *)
(***************************************************************************)
\* A panic leaving an extern "C" function is undefined behaviour: the build
\* either aborts the process or lets the unwinding reach the host's frames.
UnwindOutcomes == {"abort", "unwind"}

fil_fvm_machine_finish_message(t, id) ==
    /\ CanCall(t)
    /\ calls' = calls + 1
    /\ pc' = [pc EXCEPT ![t] = "finish_lock"]
    /\ machine_id' = [machine_id EXCEPT ![t] = id]
    /\ scenario' = "off"
    /\ UNCHANGED <<machines, poisoned, lockHolder, machine, apply_kind, returned,
                   alive, issued, drops, serials>>

\* The process is gone, and with it the registry and every thread.
Aborted ==
    /\ alive' = FALSE
    /\ machines' = << >>
    /\ poisoned' = FALSE
    /\ lockHolder' = 0
    /\ pc' = [t \in Threads |-> "idle"]
    /\ machine_id' = [t \in Threads |-> 0]
    /\ machine' = [t \in Threads |-> NoMachine]
    /\ apply_kind' = [t \in Threads |-> NoKind]
    /\ returned' = PanicEscaped
    /\ issued' = {}
    /\ drops' = [h \in MachineIds |-> 0]
    /\ calls' = 0
    /\ serials' = 0
    /\ scenario' = "off"

\* The body from FVM_MAP.lock().unwrap() on: on a poisoned Mutex the unwrap
\* panics; otherwise machines.get(&machine_id), and both arms are todo!(), a
\* panic under the guard.  Either panic leaves the entry point: the process
\* aborts, or the unwinding drops the guard (poisoning the Mutex) and
\* reaches the host with no response.
fil_fvm_machine_finish_message_get(t, ub) ==
    /\ alive
    /\ pc[t] = "finish_lock"
    /\ LockAvailable
    /\ IF ub = "abort"
         THEN Aborted
         ELSE /\ Return(t, PanicEscaped)
              /\ poisoned' = TRUE
              /\ lockHolder' = 0
              /\ UNCHANGED <<machines, alive, issued, drops, calls, serials, scenario>>

(***************************************************************************)
(* The program: host threads call the entry points in any interleaving.    *)
(***************************************************************************)
Next ==
    \E t \in Threads :
        \/ \E c \in CreateCalls : fil_create_fvm_machine(t, c.args, c.eng)
        \/ add_fvm_machine(t)
        \/ fil_create_fvm_machine_return(t)
        \/ \E id \in MachineIds : fil_drop_fvm_machine(t, id)
        \/ fil_drop_fvm_machine_remove(t)
        \/ \E id \in MachineIds, m \in FilMessages, k \in ApplyKindArgs :
               fil_fvm_machine_execute_message(t, id, m, k)
        \/ fil_fvm_machine_execute_message_get(t)
        \/ \E eng \in EngineOutcomes, applied \in BOOLEAN, apply_ret \in ApplyRets :
               fil_fvm_machine_execute_message_engine(t, eng, applied, apply_ret)
        \/ \E id \in MachineIds : fil_fvm_machine_finish_message(t, id)
        \/ \E ub \in UnwindOutcomes : fil_fvm_machine_finish_message_get(t, ub)

Spec == Init /\ [][Next]_vars

\* The steps a thread takes by itself once it is inside a call: the operating
\* system schedules every thread again and again, and the engine calls return.
Step(t) ==
    \/ add_fvm_machine(t)
    \/ fil_create_fvm_machine_return(t)
    \/ fil_drop_fvm_machine_remove(t)
    \/ fil_fvm_machine_execute_message_get(t)
    \/ \E eng \in EngineOutcomes, applied \in BOOLEAN, apply_ret \in ApplyRets :
           fil_fvm_machine_execute_message_engine(t, eng, applied, apply_ret)
    \/ \E ub \in UnwindOutcomes : fil_fvm_machine_finish_message_get(t, ub)

FairSpec == Spec /\ \A t \in Threads : WF_vars(Step(t))

TypeOK ==
    /\ DOMAIN machines \subseteq MachineIds
    /\ poisoned \in BOOLEAN
    /\ lockHolder \in Threads \cup {0}
    /\ calls \in 0..MaxCalls
    /\ scenario \in {"fresh", "created", "executed", "dropped", "executed_again", "off"}

(***************************************************************************)
(* Properties.                                                             *)
(***************************************************************************)
IssuedHandles == {r.handle : r \in issued}

SumDrops ==
    LET RECURSIVE S(_)
        S(h) == IF h < 0 THEN 0 ELSE drops[h] + S(h - 1)
    IN  S(MaxId)

InEngine(t) == pc[t] = "exec_engine"

\* C1: the handles returned by the successful create calls are pairwise
\* distinct and strictly increasing in allocation order (the order in which
\* the creates took their id): a handle is never returned a second time.
C1_HandlesStrictlyIncreasing ==
    \A a, b \in issued : a.serial < b.serial => a.handle < b.handle

\* C2: no create removes or replaces a registered instance, so the number of
\* registered instances is the number of successful creates minus the number
\* of successful drops.
C2_RegistryCountsCreatesMinusDrops ==
    Cardinality(DOMAIN machines) = Cardinality(issued) - SumDrops

\* C3: a drop or execute call on a handle that was never issued, or that was
\* already removed, ends with status UnclassifiedError and leaves the
\* registry as it was.
C3_StaleHandleFailsUntouched ==
    [][\A t \in Threads :
          ( /\ pc[t] \in {"drop_lock", "exec_lock", "exec_engine"}
            /\ pc'[t] = "idle"
            /\ alive'
            /\ (machine_id[t] \notin IssuedHandles \/ drops[machine_id[t]] > 0) )
          => /\ returned'.status_code = FCPUnclassifiedError
             /\ machines' = machines]_vars

\* C4: for every handle, drop succeeds exactly once: after the first drop
\* that returned NoError no later drop on the same handle returns NoError.
C4_DropSucceedsOnce ==
    \A h \in MachineIds : drops[h] <= 1

\* The create inputs on which the claim's failures happen: a conversion of
\* the token amount, the network version or the state root fails, or
\* Machine::new returns Err.
CreateFails(args, eng) ==
    \/ ~TokenAmountFromU64(args.token_amount).some
    \/ ~NetworkVersionTryFrom(args.network_version).ok
    \/ ~CidTryFrom(args.state_root).ok
    \/ eng = "Err"

FailingCreateCalls == {c \in CreateCalls : CreateFails(c.args, c.eng)}

\* A step that can be thread t's call of create: the thread was idle, a call
\* was counted, no other thread moved, and t either entered add_fvm_machine
\* or handed a create response to the host.
CreateCallStep(t) ==
    /\ pc[t] = "idle"
    /\ calls' = calls + 1
    /\ \A u \in Threads \ {t} : pc'[u] = pc[u]
    /\ \/ pc'[t] = "add_lock"
       \/ pc'[t] = "idle" /\ returned'.kind = "create"

\* C5: a create call that fails in a conversion or in the engine construction
\* returns UnclassifiedError at once, allocates no handle and inserts no
\* instance: the registry, the lock and the thread are as before the call,
\* so the next create is served as if the failed one had not been made.
C5_FailedCreateAllocatesNothing ==
    [][\A t \in Threads :
          CreateCallStep(t) =>
              \A c \in FailingCreateCalls :
                  fil_create_fvm_machine(t, c.args, c.eng)
                  => /\ returned'.kind = "create"
                     /\ returned'.status_code = FCPUnclassifiedError
                     /\ pc'[t] = "idle"
                     /\ machine'[t] = NoMachine
                     /\ machines' = machines
                     /\ issued' = issued
                     /\ serials' = serials
                     /\ poisoned' = poisoned
                     /\ lockHolder' = lockHolder]_vars

\* C5 witness: a create has failed on its state root while a machine is
\* registered.
C5_Witness ==
    /\ returned.kind = "create"
    /\ returned.status_code = FCPUnclassifiedError
    /\ returned.error_msg = "cid error"
    /\ DOMAIN machines # {}

\* C6: no two execute calls are inside the engine for the same handle at
\* the same time, and while an execute is inside the engine for a handle the
\* instance it looked up is still the one registered under that handle (no
\* drop has removed it).
C6_ExecuteExclusivePerHandle ==
    \A t \in Threads :
        InEngine(t) =>
            /\ machine_id[t] \in DOMAIN machines
            /\ machines[machine_id[t]].serial = machine[t]
            /\ \A u \in Threads \ {t} :
                   ~(InEngine(u) /\ machine_id[u] = machine_id[t])

\* C6 witness: an execute is inside the engine while a drop of the same
\* handle waits for the lock.
C6_Witness ==
    \E t, u \in Threads :
        /\ InEngine(t)
        /\ pc[u] = "drop_lock"
        /\ machine_id[u] = machine_id[t]

C8_PanicsContained ==
    alive /\ returned # PanicEscaped

\* C9: a finish call ends by returning a failure response to the host, with
\* the process alive and the registry unchanged and usable (its lock not
\* poisoned by the call).
C9_FinishFailsExplicitly ==
    [][\A t \in Threads :
          (pc[t] = "finish_lock" /\ pc'[t] = "idle")
          => /\ alive'
             /\ returned'.kind = "finish"
             /\ returned'.status_code = FCPUnclassifiedError
             /\ machines' = machines
             /\ poisoned' = poisoned]_vars

\* C10: in every response of create, drop and execute the error message is
\* present exactly when the status code is not NoError.
C10_ErrorMsgIffNotNoError ==
    returned.kind \in {"create", "drop", "execute"}
    => (returned.error_msg # NoMsg <=> returned.status_code # FCPNoError)

\* C10 witness: a drop of a handle that is not registered has returned its
\* failure response.
C10_Witness ==
    /\ returned.kind = "drop"
    /\ returned.status_code = FCPUnclassifiedError
    /\ returned.error_msg = "invalid machine id"

\* C11: in a fresh process, create with valid inputs returns success with
\* handle 0; execute (Explicit, well-formed message) on that handle then
\* returns success; drop of the handle then returns success; execute on the
\* handle again then returns UnclassifiedError "invalid machine id".
C11_ReferenceScenario ==
    AllIdle =>
      /\ scenario = "created" => returned = CreateOkResponse(0)
      /\ scenario = "executed"
           => /\ returned.kind = "execute"
              /\ returned.status_code = FCPNoError
              /\ returned.error_msg = NoMsg
      /\ scenario = "dropped"
           => /\ returned.kind = "drop"
              /\ returned.status_code = FCPNoError
              /\ returned.error_msg = NoMsg
      /\ scenario = "executed_again"
           => returned = ErrorResponse("execute", "invalid machine id")

\* C11 witness: the four calls of the scenario have all returned.
C11_Witness ==
    AllIdle /\ scenario = "executed_again"

\* C12: the payload of a NoError execute response equals the ApplyRet (gas
\* used, return data, exit code) that the engine returned for that call.
C12_ExecutePayloadIsApplyRet ==
    [][\A t \in Threads, apply_ret \in ApplyRets :
          fil_fvm_machine_execute_message_engine(t, "Ok", TRUE, apply_ret)
          => /\ returned'.status_code = FCPNoError
             /\ returned'.payload.gas_used = apply_ret.gas_used
             /\ returned'.payload.return_data = apply_ret.return_data
             /\ returned'.payload.exit_code = apply_ret.exit_code]_vars

\* C13: a drop or an execute called with a handle that is not in the registry
\* returns UnclassifiedError with the message "invalid machine id", whatever
\* the other inputs are (an execute whose message does not convert included).
C13_AbsentHandleAlwaysInvalidId ==
    [][\A t \in Threads :
          /\ \A id \in MachineIds \ DOMAIN machines, m \in FilMessages, k \in ApplyKindArgs :
                (fil_fvm_machine_execute_message(t, id, m, k) /\ pc'[t] = "idle")
                => returned' = ErrorResponse("execute", "invalid machine id")
          /\ (/\ pc[t] = "exec_lock" /\ pc'[t] = "idle" /\ alive'
              /\ machine_id[t] \notin DOMAIN machines)
             => returned' = ErrorResponse("execute", "invalid machine id")
          /\ (/\ pc[t] = "drop_lock" /\ pc'[t] = "idle" /\ alive'
              /\ machine_id[t] \notin DOMAIN machines)
             => returned' = ErrorResponse("drop", "invalid machine id")]_vars

\* C13, amended: a drop or an execute that looks up a handle that is not in
\* the registry returns UnclassifiedError and leaves the registry as it was;
\* its message is "invalid machine id" when the registry lock is not poisoned
\* and the caught panic's when it is.  An execute whose message does not
\* convert returns the conversion error before any lookup.
C13_AbsentHandleFailsAtLookup ==
    [][/\ \A t \in Threads :
             (/\ pc[t] \in {"drop_lock", "exec_lock"} /\ pc'[t] = "idle" /\ alive'
              /\ machine_id[t] \notin DOMAIN machines)
             => /\ returned'.status_code = FCPUnclassifiedError
                /\ returned'.error_msg =
                      IF poisoned THEN "Rust panic" ELSE "invalid machine id"
                /\ machines' = machines
       /\ (calls' = calls + 1 /\ pc' = pc /\ returned'.kind = "execute")
          => /\ returned' = ErrorResponse("execute", "message conversion error")
             /\ machines' = machines]_vars

\* C13 witness: an execute has looked up a handle that is not registered and
\* returned the lookup failure.
C13_Witness ==
    /\ returned = ErrorResponse("execute", "invalid machine id")
    /\ ~poisoned

\* The create calls whose token amount, network version or state root does
\* not convert, with every outcome the engine would have had, and the execute
\* calls whose message does not convert.
UnconvertibleCreateCalls ==
    {c \in [args : CreateArgs, eng : EngineOutcomes] : ~ConversionsOk(c.args)}

UnconvertibleExecuteCalls ==
    {c \in [id : MachineIds, message : FilMessages, kind : ApplyKindArgs] :
        c.message.from = "malformed" \/ c.message.to = "malformed"}

\* A step that can be thread t's call of execute: the thread was idle, a call
\* was counted, no other thread moved, and t either went on to the lock or
\* handed an execute response to the host.
ExecuteCallStep(t) ==
    /\ pc[t] = "idle"
    /\ calls' = calls + 1
    /\ \A u \in Threads \ {t} : pc'[u] = pc[u]
    /\ \/ pc'[t] = "exec_lock"
       \/ pc'[t] = "idle" /\ returned'.kind = "execute"

\* C14: a create or an execute whose host input does not convert returns
\* UnclassifiedError before the engine is called and before the registry is
\* touched: no machine is constructed, the thread never reaches the lock or
\* the engine call, and the table, its instances and the lock are unchanged,
\* whatever the engine would have answered.
C14_ConversionErrorBeforeEngineAndRegistry ==
    [][\A t \in Threads :
          /\ (/\ CreateCallStep(t)
              /\ \E c \in UnconvertibleCreateCalls :
                    fil_create_fvm_machine(t, c.args, c.eng))
             => /\ returned'.kind = "create"
                /\ returned'.status_code = FCPUnclassifiedError
                /\ returned'.error_msg # "Rust panic"
                /\ pc'[t] = "idle"
                /\ serials' = serials
                /\ <<machines, issued, drops, poisoned, lockHolder>>'
                     = <<machines, issued, drops, poisoned, lockHolder>>
          /\ (/\ ExecuteCallStep(t)
              /\ \E c \in UnconvertibleExecuteCalls :
                    fil_fvm_machine_execute_message(t, c.id, c.message, c.kind))
             => /\ returned'.kind = "execute"
                /\ returned'.status_code = FCPUnclassifiedError
                /\ returned'.error_msg # "Rust panic"
                /\ pc'[t] = "idle"
                /\ <<machines, issued, drops, poisoned, lockHolder>>'
                     = <<machines, issued, drops, poisoned, lockHolder>>]_vars

\* C14 witness: an execute has returned a conversion error while a machine is
\* registered.
C14_Witness ==
    /\ returned = ErrorResponse("execute", "message conversion error")
    /\ DOMAIN machines # {}

\* A step in which a create, drop or execute call ends in a panic that
\* catch_panic_response turns into a response.
CaughtPanicStep ==
    /\ alive'
    /\ returned'.kind \in {"create", "drop", "execute"}
    /\ returned'.error_msg = "Rust panic"
    /\ \/ calls' = calls + 1 /\ pc' = pc
       \/ \E t \in Threads : pc[t] # "idle" /\ pc'[t] = "idle"

\* C15: a panic in an entry point, the engine call under the registry lock
\* included, leaves the process alive and the registry consistent and usable:
\* the table holds exactly entries that a completed insert put there, the lock
\* is free, and the panic has not poisoned it, so create, execute and drop
\* still behave by their contracts.  (Stated for the entry points that catch
\* their panics; C8 and C9 are about finish.)
C15_FaultLeavesRegistryUsable ==
    [][CaughtPanicStep
       => /\ poisoned' = poisoned
          /\ lockHolder' # lockHolder => lockHolder' = 0
          /\ DOMAIN machines' \subseteq {r.handle : r \in issued'}]_vars

\* C16: a create call hands its handle to the host only after the insert
\* under that handle has been made: whenever a create is about to return a
\* handle, or has returned one, an insert under that handle was completed
\* before, and the handle is in the table unless a drop has removed it.
C16_PublishAfterInsert ==
    /\ \A t \in Threads :
          pc[t] = "create_ret"
          => /\ machine_id[t] \in IssuedHandles
             /\ machine_id[t] \in DOMAIN machines \/ drops[machine_id[t]] > 0
    /\ (returned.kind = "create" /\ returned.status_code = FCPNoError)
       => /\ returned.machine_id \in IssuedHandles
          /\ returned.machine_id \in DOMAIN machines \/ drops[returned.machine_id] > 0

\* C16 witness: a create has returned its handle while another thread is
\* inside the engine with the instance it looked up under that handle.
C16_Witness ==
    /\ returned.kind = "create"
    /\ returned.status_code = FCPNoError
    /\ \E t \in Threads : InEngine(t) /\ machine_id[t] = returned.machine_id

\* The execute calls whose message converts.
ConvertibleExecuteCalls ==
    {c \in [id : MachineIds, message : FilMessages, kind : ApplyKindArgs] :
        c.message.from # "malformed" /\ c.message.to # "malformed"}

\* C17: execute decodes the apply-kind argument as Explicit exactly when it
\* is 0 and as Implicit for every nonzero value, and the decoded kind is the
\* one the engine is called with: it is unchanged from the decoding, through
\* the lookup, until the engine call returns.
C17_ApplyKindDecodedAndPassedOn ==
    [][\A t \in Threads :
          /\ (ExecuteCallStep(t) /\ pc'[t] = "exec_lock")
             => \A c \in ConvertibleExecuteCalls :
                   fil_fvm_machine_execute_message(t, c.id, c.message, c.kind)
                   => /\ c.kind = 0 => apply_kind'[t] = "Explicit"
                      /\ c.kind # 0 => apply_kind'[t] = "Implicit"
          /\ (pc[t] = "exec_lock" /\ pc'[t] = "exec_engine")
             => /\ apply_kind'[t] = apply_kind[t]
                /\ apply_kind[t] \in {"Explicit", "Implicit"}]_vars

\* C17 witness: a thread is inside the engine call with the kind Implicit.
C17_Witness ==
    \E t \in Threads : InEngine(t) /\ apply_kind[t] = "Implicit"

\* C18: a failure surfaces to the call that caused it and does not make a
\* later call fail.  Stated for the failure the host was told of last: when
\* the last response handed to the host is an execute's failure (an engine
\* error or a caught internal fault), a drop of a registered handle still
\* succeeds and an execute of a registered handle still reaches the engine.
C18_LaterCallsUnaffectedByFailure ==
    [][(returned.kind = "execute" /\ returned.status_code = FCPUnclassifiedError)
       => \A t \in Threads :
             /\ (/\ pc[t] = "drop_lock" /\ pc'[t] # "drop_lock" /\ alive'
                 /\ machine_id[t] \in DOMAIN machines)
                => returned' = DefaultResponse("drop")
             /\ (/\ pc[t] = "exec_lock" /\ pc'[t] # "exec_lock" /\ alive'
                 /\ machine_id[t] \in DOMAIN machines)
                => pc'[t] = "exec_engine"]_vars

\* A thread is inside a create, drop or execute call.
InCall(t) == pc[t] \in {"add_lock", "create_ret", "drop_lock", "exec_lock", "exec_engine"}

\* C19: the registry lock is never held by a thread whose call has returned
\* (it is held only by a thread inside the engine call of execute), and, the
\* engine calls returning and the threads being scheduled fairly, every
\* create, drop and execute call eventually returns: a behaviour makes
\* finitely many calls, so again and again no call is in progress.
C19_LockReleasedAndCallsReturn ==
    /\ [](lockHolder # 0 => InEngine(lockHolder))
    /\ []<>(\A t \in Threads : ~InCall(t))

\* C19 witness: a create waits for the registry lock while another thread
\* holds it inside the engine call.
C19_Witness ==
    \E t, u \in Threads : InEngine(t) /\ lockHolder = t /\ pc[u] = "add_lock"

\* The create calls whose network_version fits in 32 bits, and the same call
\* with 2^32 added to network_version.
CreateCallsBelowTwoTo32 == {c \in CreateCalls : c.args.network_version.hi = 0}

PlusTwoTo32(args) == [args EXCEPT !.network_version.hi = 1]

\* C20: create reads network_version through its low 32 bits only: a create
\* call and the same call with 2^32 added to network_version have the same
\* outcome, and such a call is rejected for its network version exactly when
\* the low 32 bits are not a valid network version.
C20_NetworkVersionLow32Only ==
    [][\A t \in Threads :
          CreateCallStep(t) =>
              \A c \in CreateCallsBelowTwoTo32 :
                  /\ fil_create_fvm_machine(t, PlusTwoTo32(c.args), c.eng)
                     <=> fil_create_fvm_machine(t, c.args, c.eng)
                  /\ fil_create_fvm_machine(t, PlusTwoTo32(c.args), c.eng)
                     => ((/\ pc'[t] = "idle"
                          /\ returned' = ErrorResponse("create", "network version error"))
                         <=> c.args.network_version.lo \notin ValidNetworkVersions)]_vars

\* C20 witness: a create has been rejected for its network version while a
\* machine created by an accepted call is registered.
C20_Witness ==
    /\ returned = ErrorResponse("create", "network version error")
    /\ DOMAIN machines # {}

====
